---- MODULE Spec2Model ----
(***************************************************************************)
(* The two Streamlit dashboards of the repository as state machines:      *)
(*   "vg"  - Video Game Analytics Dashboard, app.py                        *)
(*   "ola" - OLA Data Analysis, app.py                                     *)
(* A script run is a sequence of steps (pc); Streamlit re-runs the script  *)
(* on every widget change, with the table of load_data cached.             *)
(***************************************************************************)
EXTENDS Integers, Sequences, FiniteSets, TLC

\* ------------------------------------------------------------------ bounds
\* Longest table (rows) a data source holds in the dashboard runs.
MaxRows == 2

\* ------------------------------------------------------- generic helpers
Range(f) == {f[i] : i \in 1..Len(f)}

Min2(a, b) == IF a <= b THEN a ELSE b

\* s[1..n]
Take(s, n) == SubSeq(s, 1, Min2(n, Len(s)))

RECURSIVE SelectRows(_, _)
\* the rows of s, in order, whose position is in keep
SelectRows(s, keep) ==
    IF s = <<>> THEN <<>>
    ELSE LET n == Len(s)
             front == SelectRows(SubSeq(s, 1, n - 1), keep)
         IN IF n \in keep THEN Append(front, s[n]) ELSE front

\* all sequences over S of length 0..n
SeqsUpTo(S, n) == UNION {[1..k -> S] : k \in 0..n}

\* ---------------------------------------------------------------- cells
\* A cell of a pandas column: a missing value (NaN/None), a number, or a
\* string kept as its sequence of characters.
Null == [k |-> "null", v |-> 0, s |-> <<>>]
Num(n) == [k |-> "num", v |-> n, s |-> <<>>]
Str(chars) == [k |-> "str", v |-> 0, s |-> chars]

IsNull(c) == c.k = "null"

UpperLetters == <<"A","B","C","D","E","F","G","H","I","J","K","L","M",
                  "N","O","P","Q","R","S","T","U","V","W","X","Y","Z">>
LowerLetters == <<"a","b","c","d","e","f","g","h","i","j","k","l","m",
                  "n","o","p","q","r","s","t","u","v","w","x","y","z">>
DigitChars == <<"0","1","2","3","4","5","6","7","8","9">>

\* str.lower() on one character
LowerChar(c) ==
    IF \E i \in 1..26 : UpperLetters[i] = c
    THEN LowerLetters[CHOOSE i \in 1..26 : UpperLetters[i] = c]
    ELSE c

\* every character the model uses
AllChars == {" ", "#", "-", "_"} \cup Range(DigitChars)
            \cup Range(UpperLetters) \cup Range(LowerLetters)

LowerTable == [c \in AllChars |-> LowerChar(c)]

\* str.lower()
Lower(s) == [i \in 1..Len(s) |-> LowerTable[s[i]]]

\* str.strip(): surrounding blanks removed
RECURSIVE Strip(_)
Strip(s) ==
    IF s = <<>> THEN s
    ELSE IF Head(s) = " " THEN Strip(Tail(s))
    ELSE IF s[Len(s)] = " " THEN Strip(SubSeq(s, 1, Len(s) - 1))
    ELSE s

\* s.startswith(p)
StartsWith(s, p) == Len(p) <= Len(s) /\ SubSeq(s, 1, Len(p)) = p

\* s.endswith(p)
EndsWith(s, p) == Len(p) <= Len(s) /\ SubSeq(s, Len(s) - Len(p) + 1, Len(s)) = p

\* p in s
Contains(s, p) ==
    \E i \in 0..(Len(s) - Len(p)) : SubSeq(s, i + 1, i + Len(p)) = p

IsDigits(s) == s # <<>> /\ \A i \in 1..Len(s) : s[i] \in Range(DigitChars)

DigitVal(c) == (CHOOSE i \in 1..10 : DigitChars[i] = c) - 1

RECURSIVE ParseDigits(_)
ParseDigits(s) ==
    IF s = <<>> THEN 0
    ELSE 10 * ParseDigits(SubSeq(s, 1, Len(s) - 1)) + DigitVal(s[Len(s)])

\* pd.to_numeric(x, errors='coerce') on one cell: a number stays, a string of
\* digits (optionally after a minus sign) is parsed, any other string and a
\* missing value become NaN.
ToNumeric(c) ==
    CASE c.k = "num" -> c
      [] c.k = "null" -> Null
      [] OTHER ->
          LET t == Strip(c.s)
          IN IF IsDigits(t) THEN Num(ParseDigits(t))
             ELSE IF t # <<>> /\ Head(t) = "-" /\ IsDigits(Tail(t))
                  THEN Num(0 - ParseDigits(Tail(t)))
             ELSE Null

\* Series.fillna(0) on one cell
FillNa0(c) == IF IsNull(c) THEN Num(0) ELSE c

\* Series.astype(str) on one cell of a text column: a missing value becomes
\* the three characters "nan"; a string stays as it is.
AsTypeStr(c) ==
    CASE c.k = "null" -> <<"n", "a", "n">>
      [] c.k = "str" -> c.s
      [] OTHER -> IF c.v >= 0 /\ c.v <= 9 THEN <<DigitChars[c.v + 1]>>
                  ELSE <<"#">>

\* ------------------------------------------------------------- ordering
\* the characters the model uses, in code point order
Ascii == <<" ", "#", "-">> \o DigitChars \o UpperLetters \o <<"_">> \o LowerLetters

CharRank(c) == CHOOSE i \in 1..Len(Ascii) : Ascii[i] = c

RECURSIVE LexLess(_, _)
\* a < b on Python strings
LexLess(a, b) ==
    IF b = <<>> THEN FALSE
    ELSE IF a = <<>> THEN TRUE
    ELSE IF Head(a) # Head(b) THEN CharRank(Head(a)) < CharRank(Head(b))
    ELSE LexLess(Tail(a), Tail(b))

\* a < b on two non-missing cells of one column (numbers, or strings)
CellLess(a, b) ==
    IF a.k = "num" /\ b.k = "num" THEN a.v < b.v ELSE LexLess(a.s, b.s)

RECURSIVE SortCells(_)
\* the cells of a set, ascending
SortCells(S) ==
    IF S = {} THEN <<>>
    ELSE LET m == CHOOSE x \in S : \A y \in S : ~CellLess(y, x)
         IN <<m>> \o SortCells(S \ {m})

\* the distinct values of a sequence, in order of first appearance
RECURSIVE Distinct(_)
Distinct(s) ==
    IF s = <<>> THEN <<>>
    ELSE LET front == Distinct(SubSeq(s, 1, Len(s) - 1))
             x == s[Len(s)]
         IN IF x \in Range(front) THEN front ELSE Append(front, x)

RECURSIVE Flatten(_)
\* the concatenation of a sequence of sequences
Flatten(ss) == IF ss = <<>> THEN <<>> ELSE Head(ss) \o Flatten(Tail(ss))

\* --------------------------------------------------------------- headers
\* Column names are strings; Chars gives the characters of a name, so that
\* strip(), lower(), startswith() and "in" are computed on them.
Headers == {"Title", "Platform", "Genre", "Rating", "Global_Sales", "Year", "Wishlist", "Plays", "Backlogs", "Developer", "Name", "title_lc", "name_lc", "platform", "genre_name", " rating ", "rating", "global sales", "Release_Year", "NA_Sales",
            "Year_games", "Year_sales",
            "Date", "Booking_ID", "Booking_Status", "Vehicle_Type", "Payment_Method", "Pickup_Location", "Booking_Value", "Hour", " Vehicle_Type", "Ride_Distance"}

Chars(h) ==
    CASE h = "Title" -> <<"T", "i", "t", "l", "e">>
      [] h = "Platform" -> <<"P", "l", "a", "t", "f", "o", "r", "m">>
      [] h = "Genre" -> <<"G", "e", "n", "r", "e">>
      [] h = "Rating" -> <<"R", "a", "t", "i", "n", "g">>
      [] h = "Global_Sales" -> <<"G", "l", "o", "b", "a", "l", "_", "S", "a", "l", "e", "s">>
      [] h = "Year" -> <<"Y", "e", "a", "r">>
      [] h = "Wishlist" -> <<"W", "i", "s", "h", "l", "i", "s", "t">>
      [] h = "Plays" -> <<"P", "l", "a", "y", "s">>
      [] h = "Backlogs" -> <<"B", "a", "c", "k", "l", "o", "g", "s">>
      [] h = "Developer" -> <<"D", "e", "v", "e", "l", "o", "p", "e", "r">>
      [] h = "Name" -> <<"N", "a", "m", "e">>
      [] h = "title_lc" -> <<"t", "i", "t", "l", "e", "_", "l", "c">>
      [] h = "name_lc" -> <<"n", "a", "m", "e", "_", "l", "c">>
      [] h = "platform" -> <<"p", "l", "a", "t", "f", "o", "r", "m">>
      [] h = "genre_name" -> <<"g", "e", "n", "r", "e", "_", "n", "a", "m", "e">>
      [] h = " rating " -> <<" ", "r", "a", "t", "i", "n", "g", " ">>
      [] h = "rating" -> <<"r", "a", "t", "i", "n", "g">>
      [] h = "global sales" -> <<"g", "l", "o", "b", "a", "l", " ", "s", "a", "l", "e", "s">>
      [] h = "Release_Year" -> <<"R", "e", "l", "e", "a", "s", "e", "_", "Y", "e", "a", "r">>
      [] h = "NA_Sales" -> <<"N", "A", "_", "S", "a", "l", "e", "s">>
      [] h = "Year_games" -> <<"Y", "e", "a", "r", "_", "g", "a", "m", "e", "s">>
      [] h = "Year_sales" -> <<"Y", "e", "a", "r", "_", "s", "a", "l", "e", "s">>
      [] h = "Date" -> <<"D", "a", "t", "e">>
      [] h = "Booking_ID" -> <<"B", "o", "o", "k", "i", "n", "g", "_", "I", "D">>
      [] h = "Booking_Status" -> <<"B", "o", "o", "k", "i", "n", "g", "_", "S", "t", "a", "t", "u", "s">>
      [] h = "Vehicle_Type" -> <<"V", "e", "h", "i", "c", "l", "e", "_", "T", "y", "p", "e">>
      [] h = "Payment_Method" -> <<"P", "a", "y", "m", "e", "n", "t", "_", "M", "e", "t", "h", "o", "d">>
      [] h = "Pickup_Location" -> <<"P", "i", "c", "k", "u", "p", "_", "L", "o", "c", "a", "t", "i", "o", "n">>
      [] h = "Booking_Value" -> <<"B", "o", "o", "k", "i", "n", "g", "_", "V", "a", "l", "u", "e">>
      [] h = "Hour" -> <<"H", "o", "u", "r">>
      [] h = "Ride_Distance" -> <<"R", "i", "d", "e", "_", "D", "i", "s", "t", "a", "n", "c", "e">>
      [] h = " Vehicle_Type" -> <<" ", "V", "e", "h", "i", "c", "l", "e", "_", "T", "y", "p", "e">>

\* the column name with the characters cs
NameOf(cs) == CHOOSE h \in Headers : Chars(h) = cs

\* c.strip() on a column name
StripName(h) == NameOf(Strip(Chars(h)))

HeaderLower == [h \in Headers |-> Lower(Chars(h))]

\* c.lower() on a column name
LowerName(h) == HeaderLower[h]

\* ---------------------------------------------------------------- tables
\* A DataFrame: its column names in order and its rows in order. A row keeps
\* the index label it had in the table it was read from (id) and one cell per
\* column (c).
EmptyFrame == [columns |-> <<>>, rows |-> <<>>]

HasColumn(t, h) == h \in Range(t.columns)

\* DataFrame.empty
IsEmpty(t) == t.columns = <<>> \/ t.rows = <<>>

\* t[mask]: boolean indexing with a mask of one truth value per row; the
\* result is a new table
Where(t, mask) ==
    [t EXCEPT !.rows = SelectRows(t.rows, {i \in 1..Len(t.rows) : mask[i]})]

\* t[h] = cells: column h of the table itself is overwritten (added when new)
SetColumn(t, h, cells) ==
    [columns |-> IF HasColumn(t, h) THEN t.columns ELSE Append(t.columns, h),
     rows |-> [i \in 1..Len(t.rows) |->
        [id |-> t.rows[i].id,
         c |-> [x \in Range(t.columns) \cup {h} |->
                  IF x = h THEN cells[i] ELSE t.rows[i].c[x]]]]]

\* df.columns = [c.strip() for c in df.columns]
StripColumns(t) ==
    [columns |-> [i \in 1..Len(t.columns) |-> StripName(t.columns[i])],
     rows |-> [i \in 1..Len(t.rows) |->
        [id |-> t.rows[i].id,
         c |-> [h \in {StripName(x) : x \in Range(t.columns)} |->
                  t.rows[i].c[CHOOSE x \in Range(t.columns) : StripName(x) = h]]]]]

\* the values of column h, in row order
Column(t, h) == [i \in 1..Len(t.rows) |-> t.rows[i].c[h]]

Ids(t) == [i \in 1..Len(t.rows) |-> t.rows[i].id]

\* -------------------------------------------------------- frames (heap)
\* The script holds two table objects: the canonical table load_data
\* returned (df) and the derived table the name `filtered` is bound to. A
\* frame state is the two objects and the object `filtered` refers to.
\* filtered = df.copy(): a fresh object with the canonical table's content
\* filtered = df without the copy: both names refer to the canonical table
DfAlias(heap) == [heap |-> heap, ref |-> "canonical"]

DfCopy(heap) ==
    [heap |-> [heap EXCEPT !.derived = heap.canonical], ref |-> "derived"]

\* filtered = filtered[mask]: the selection is a fresh object
Index(fs, mask) ==
    [heap |-> [fs.heap EXCEPT !.derived = Where(fs.heap[fs.ref], mask)],
     ref |-> "derived"]

\* filtered[h] = cells: written into the object `filtered` refers to
Assign(fs, h, cells) ==
    [heap |-> [fs.heap EXCEPT ![fs.ref] = SetColumn(@, h, cells)],
     ref |-> fs.ref]

\* the table `filtered` refers to
Frame(fs) == fs.heap[fs.ref]

\* ------------------------------------ Video Game dashboard: resolver
\* Python's None, as a column name
None == "<None>"

W_platform == <<"p", "l", "a", "t", "f", "o", "r", "m">>
W_genre == <<"g", "e", "n", "r", "e">>
W_title == <<"t", "i", "t", "l", "e">>
W_name == <<"n", "a", "m", "e">>
W_rating == <<"r", "a", "t", "i", "n", "g">>
W_global == <<"g", "l", "o", "b", "a", "l">>
W_sales == <<"s", "a", "l", "e", "s">>
W_year == <<"y", "e", "a", "r">>

\* a resolver that takes the last matching column
LastIn(cols, S) ==
    IF \E i \in 1..Len(cols) : cols[i] \in S
    THEN cols[CHOOSE i \in 1..Len(cols) :
                 cols[i] \in S /\ \A j \in (i + 1)..Len(cols) : cols[j] \notin S]
    ELSE None

\* next((c for c in cols if c in S), None)
FirstIn(cols, S) ==
    IF \E i \in 1..Len(cols) : cols[i] \in S
    THEN cols[CHOOSE i \in 1..Len(cols) :
                 cols[i] \in S /\ \A j \in 1..(i - 1) : cols[j] \notin S]
    ELSE None

\* the column names each role's test accepts
IsPlatformName == {c \in Headers : StartsWith(LowerName(c), W_platform)}
IsGenreName == {c \in Headers : Contains(LowerName(c), W_genre)}
IsTitleName == {c \in Headers :
    StartsWith(LowerName(c), W_title) \/ StartsWith(LowerName(c), W_name)}
IsRatingName == {c \in Headers : LowerName(c) = W_rating}
IsGlobalSalesName == {c \in Headers :
    Contains(LowerName(c), W_global) /\ Contains(LowerName(c), W_sales)}
IsYearName == {c \in Headers :
    \/ LowerName(c) = W_year
    \/ Contains(LowerName(c), W_year) /\ ~Contains(LowerName(c), W_sales)}

platform_col(cols) == FirstIn(cols, IsPlatformName)
genre_col(cols) == FirstIn(cols, IsGenreName)
title_col(cols) == FirstIn(cols, IsTitleName)
rating_col(cols) == FirstIn(cols, IsRatingName)
global_sales_col(cols) == FirstIn(cols, IsGlobalSalesName)
year_col(cols) == FirstIn(cols, IsYearName)

\* the role map of the script: lines 78-82 and 129
Resolve(cols) ==
    [platform |-> platform_col(cols), genre |-> genre_col(cols),
     title |-> title_col(cols), rating |-> rating_col(cols),
     global_sales |-> global_sales_col(cols), year |-> year_col(cols)]

NoRoles ==
    [platform |-> None, genre |-> None, title |-> None, rating |-> None,
     global_sales |-> None, year |-> None]

\* df[col].dropna().unique(): the choices of a multiselect
Options(t, col) ==
    IF col = None THEN {} ELSE {c \in Range(Column(t, col)) : ~IsNull(c)}

\* ------------------------------------- Video Game dashboard: filters
\* if platform_col and selected_platforms: filtered[platform_col].isin(..)
FilterPlatform(fs, roles, spec) ==
    IF roles.platform # None /\ spec.platforms # {}
    THEN Index(fs, [i \in 1..Len(Frame(fs).rows) |->
                       Frame(fs).rows[i].c[roles.platform] \in spec.platforms])
    ELSE fs

\* a genre filter without the test for an empty selection
FilterGenreUnguarded(fs, roles, spec) ==
    IF roles.genre # None
    THEN Index(fs, [i \in 1..Len(Frame(fs).rows) |->
                       Frame(fs).rows[i].c[roles.genre] \in spec.genres])
    ELSE fs

\* if genre_col and selected_genres: filtered[genre_col].isin(..)
FilterGenre(fs, roles, spec) ==
    IF roles.genre # None /\ spec.genres # {}
    THEN Index(fs, [i \in 1..Len(Frame(fs).rows) |->
                       Frame(fs).rows[i].c[roles.genre] \in spec.genres])
    ELSE fs

\* a rating filter that keeps the ratings above the bound only
FilterRatingStrict(fs, roles, spec) ==
    IF roles.rating # None
    THEN LET co == Assign(fs, roles.rating,
                     [i \in 1..Len(Frame(fs).rows) |->
                         ToNumeric(Frame(fs).rows[i].c[roles.rating])])
         IN Index(co, [i \in 1..Len(Frame(co).rows) |->
                FillNa0(Frame(co).rows[i].c[roles.rating]).v > spec.min_rating])
    ELSE fs

\* if rating_col: coerce the column in place, keep fillna(0) >= min_rating
FilterRating(fs, roles, spec) ==
    IF roles.rating # None
    THEN LET co == Assign(fs, roles.rating,
                     [i \in 1..Len(Frame(fs).rows) |->
                         ToNumeric(Frame(fs).rows[i].c[roles.rating])])
         IN Index(co, [i \in 1..Len(Frame(co).rows) |->
                FillNa0(Frame(co).rows[i].c[roles.rating]).v >= spec.min_rating])
    ELSE fs

\* .astype(str).str.contains(search_title, case=False, na=False) on one
\* cell, for a search string of letters and blanks (no regex operators)
TitleMatches(cell, search) == Contains(Lower(AsTypeStr(cell)), Lower(search))

\* if search_title and title_col
FilterTitle(fs, roles, spec) ==
    IF spec.search # <<>> /\ roles.title # None
    THEN Index(fs, [i \in 1..Len(Frame(fs).rows) |->
                       TitleMatches(Frame(fs).rows[i].c[roles.title], spec.search)])
    ELSE fs

\* lines 93-102
ApplyFiltersVG(heap, roles, spec) ==
    FilterTitle(FilterRating(FilterGenre(FilterPlatform(
        DfCopy(heap), roles, spec), roles, spec), roles, spec), roles, spec)

\* ----------------------------------------------- sorting and aggregates
\* a column holds text: pandas keeps it with dtype object, and nlargest,
\* mean and sum over it raise TypeError
HasText(t, h) == \E i \in 1..Len(t.rows) : t.rows[i].c[h].k = "str"

RECURSIVE SumOf(_)
\* Series.sum(): the missing values are skipped; the sum of none is 0
SumOf(cells) ==
    IF cells = <<>> THEN 0
    ELSE (IF Head(cells).k = "num" THEN Head(cells).v ELSE 0) + SumOf(Tail(cells))

\* Series.count(): the number of values that are not missing
CountOf(cells) == Cardinality({i \in 1..Len(cells) : ~IsNull(cells[i])})

\* Series.mean() as the pair (sum, count): NaN when count = 0
MeanOf(cells) == [sum |-> SumOf(cells), n |-> CountOf(cells)]

\* Series.nunique()
NUnique(cells) == Cardinality({c \in Range(cells) : ~IsNull(c)})

RECURSIVE PickDesc(_, _, _)
\* The positions S of the number cells `keys`, largest value first. Equal
\* values come in their original order, or reversed when tiesReversed.
PickDesc(keys, S, tiesReversed) ==
    IF S = {} THEN <<>>
    ELSE LET m == CHOOSE i \in S : \A j \in S \ {i} :
                    \/ keys[i].v > keys[j].v
                    \/ keys[i].v = keys[j].v
                       /\ (IF tiesReversed THEN i > j ELSE i < j)
         IN <<m>> \o PickDesc(keys, S \ {m}, tiesReversed)

RECURSIVE Ascending(_)
\* the members of a set of integers, smallest first
Ascending(S) ==
    IF S = {} THEN <<>>
    ELSE LET m == CHOOSE i \in S : \A j \in S : i <= j
         IN <<m>> \o Ascending(S \ {m})

\* The order of sort_values(by=h, ascending=False) as row positions: the
\* rows with a value, largest first, then the rows with a missing value in
\* their original order. The default sort kind is quicksort, which numpy
\* does not promise to be stable: the order among equal values is the
\* original one or not (tiesReversed), as the build decides.
OrderDesc(keys, tiesReversed) ==
    PickDesc(keys, {i \in 1..Len(keys) : ~IsNull(keys[i])}, tiesReversed)
    \o Ascending({i \in 1..Len(keys) : IsNull(keys[i])})

\* t.sort_values(by=h, ascending=False): the rows of t
SortValuesDesc(t, h, tiesReversed) ==
    LET o == OrderDesc(Column(t, h), tiesReversed)
    IN [i \in 1..Len(o) |-> t.rows[o[i]]]

\* the Top-N limit of every Top-N query of the dashboard
TopN == 10

\* the first n rows of t as they stand
TopByHead(t, h, n, tiesReversed) == Take(t.rows, n)

\* t.sort_values(by=h, ascending=False).head(n)
TopBySort(t, h, n, tiesReversed) == Take(SortValuesDesc(t, h, tiesReversed), n)

\* t.nlargest(n, h), keep='first', on a numeric column. With n >= len(t)
\* pandas returns sort_values(ascending=False).head(n); otherwise it picks
\* the n largest with a stable sort and fills up with missing-value rows.
NLargest(t, h, n, tiesReversed) ==
    IF n >= Len(t.rows) THEN Take(SortValuesDesc(t, h, tiesReversed), n)
    ELSE Take(SortValuesDesc(t, h, FALSE), n)

\* what a Top-N table shows of a row: its index label and its metric
Shown(rows, h) == [i \in 1..Len(rows) |-> [id |-> rows[i].id, metric |-> rows[i].c[h]]]

\* a group-by that carries the number of rows of a group as its sum
GroupBySize(t, key, val) ==
    LET ks == SortCells({c \in Range(Column(t, key)) : ~IsNull(c)})
        part(k) == SelectRows(Column(t, val),
                      {i \in 1..Len(t.rows) : t.rows[i].c[key] = k})
    IN [i \in 1..Len(ks) |->
          [key |-> ks[i], sum |-> Len(part(ks[i])), n |-> CountOf(part(ks[i])),
           size |-> Len(part(ks[i]))]]

\* t.groupby(key)[val]: one group per value of the key column that is not
\* missing, in ascending order of the key; each with the sum and count of
\* the values of val that are not missing
GroupBy(t, key, val) ==
    LET ks == SortCells({c \in Range(Column(t, key)) : ~IsNull(c)})
        part(k) == SelectRows(Column(t, val),
                      {i \in 1..Len(t.rows) : t.rows[i].c[key] = k})
    IN [i \in 1..Len(ks) |->
          [key |-> ks[i], sum |-> SumOf(part(ks[i])), n |-> CountOf(part(ks[i])),
           size |-> Len(part(ks[i]))]]

\* groups sorted by their sum, largest first (sort_values, ascending=False)
BySumDesc(groups, tiesReversed) ==
    LET o == OrderDesc([i \in 1..Len(groups) |-> Num(groups[i].sum)], tiesReversed)
    IN [i \in 1..Len(o) |-> groups[o[i]]]

RECURSIVE PickMeanDesc(_, _, _)
\* the positions S of groups with a mean, largest mean first
PickMeanDesc(groups, S, tiesReversed) ==
    IF S = {} THEN <<>>
    ELSE LET m == CHOOSE i \in S : \A j \in S \ {i} :
                    \/ groups[i].sum * groups[j].n > groups[j].sum * groups[i].n
                    \/ groups[i].sum * groups[j].n = groups[j].sum * groups[i].n
                       /\ (IF tiesReversed THEN i > j ELSE i < j)
         IN <<m>> \o PickMeanDesc(groups, S \ {m}, tiesReversed)

\* groups sorted by their mean, largest first, the groups without a mean last
ByMeanDesc(groups, tiesReversed) ==
    LET o == PickMeanDesc(groups, {i \in 1..Len(groups) : groups[i].n > 0}, tiesReversed)
             \o Ascending({i \in 1..Len(groups) : groups[i].n = 0})
    IN [i \in 1..Len(o) |-> groups[o[i]]]

\* ------------------------------------- Video Game dashboard: load_data
W_games == <<"_", "g", "a", "m", "e", "s">>
W_sales_suffix == <<"_", "s", "a", "l", "e", "s">>

\* a column name with a suffix of pd.merge
Suffixed(h, suffix) == NameOf(Chars(h) \o suffix)

\* g['title_lc'] = g['Title'].astype(str).str.lower().str.strip()
WithKey(t, from, key) ==
    SetColumn(t, key, [i \in 1..Len(t.rows) |->
        Str(Strip(Lower(AsTypeStr(t.rows[i].c[from]))))])

\* pd.merge(g, s, left_on='title_lc', right_on='name_lc', how='outer',
\*          suffixes=('_games','_sales')) of the two tables with their key
\* columns. The keys are taken in order of first appearance (left, then
\* right) or, when sortKeys, in lexicographic order: pandas versions differ.
\* For each key: every pairing of the left and right rows that have it; a
\* row without a partner is paired with missing values.
Merge(g, s, sortKeys) ==
    LET both == (Range(g.columns) \cap Range(s.columns))
        lname(h) == IF h \in both THEN Suffixed(h, W_games) ELSE h
        rname(h) == IF h \in both THEN Suffixed(h, W_sales_suffix) ELSE h
        cols == [i \in 1..Len(g.columns) |-> lname(g.columns[i])]
                \o [i \in 1..Len(s.columns) |-> rname(s.columns[i])]
        lkeys == Column(g, "title_lc")
        rkeys == Column(s, "name_lc")
        keys == IF sortKeys THEN SortCells(Range(lkeys) \cup Range(rkeys))
                ELSE Distinct(lkeys \o rkeys)
        ls(k) == SelectRows(g.rows, {i \in 1..Len(g.rows) : lkeys[i] = k})
        rs(k) == SelectRows(s.rows, {i \in 1..Len(s.rows) : rkeys[i] = k})
        nulls(t) == [c |-> [h \in Range(t.columns) |-> Null]]
        lpart(k) == IF ls(k) = <<>> THEN <<nulls(g)>> ELSE ls(k)
        rpart(k) == IF rs(k) = <<>> THEN <<nulls(s)>> ELSE rs(k)
        pair(l, r) == [h \in Range(cols) |->
            IF \E x \in Range(g.columns) : lname(x) = h
            THEN l.c[CHOOSE x \in Range(g.columns) : lname(x) = h]
            ELSE r.c[CHOOSE x \in Range(s.columns) : rname(x) = h]]
        group(k) == Flatten([i \in 1..Len(lpart(k)) |->
                        [j \in 1..Len(rpart(k)) |-> pair(lpart(k)[i], rpart(k)[j])]])
        cells == Flatten([n \in 1..Len(keys) |-> group(keys[n])])
    IN [columns |-> cols,
        rows |-> [i \in 1..Len(cells) |-> [id |-> i - 1, c |-> cells[i]]]]

\* The files beside the script: the SQLite store (missing, readable with a
\* set of tables, or not a database) and the CSV file (missing, readable,
\* or not parseable).
TableNames == {"merged", "video_game_data", "games", "sales"}

\* unstable_sort: the build's quicksort reorders equal values
Envs ==
    [db : {"missing", "corrupt"}, tables : {{}}, csv : {"missing", "ok", "corrupt"},
     unstable_sort : BOOLEAN]
    \cup [db : {"ok"}, tables : SUBSET TableNames, csv : {"missing", "ok", "corrupt"},
          unstable_sort : BOOLEAN]

\* The source load_data reads, lines 38-63: "merged", "video_game_data",
\* "join" (games and sales), "csv", "none" (an empty DataFrame), or
\* "raise" when a read raises.
SourceVG(e) ==
    IF e.db # "missing"
    THEN IF e.db = "corrupt" THEN "raise"
         ELSE IF "merged" \in e.tables THEN "merged"
         ELSE IF "video_game_data" \in e.tables THEN "video_game_data"
         ELSE IF "games" \in e.tables /\ "sales" \in e.tables THEN "join"
         ELSE IF e.csv = "missing" THEN "none"
         ELSE IF e.csv = "corrupt" THEN "raise" ELSE "csv"
    ELSE IF e.csv = "missing" THEN "none"
         ELSE IF e.csv = "corrupt" THEN "raise" ELSE "csv"

\* load_data raises: a read fails, or the join finds no Title / Name column
LoadRaisesVG(src, d, d2) ==
    \/ src = "raise"
    \/ src = "join" /\ ~(HasColumn(d, "Title") /\ HasColumn(d2, "Name"))

\* The table load_data returns (lines 38-67) for a source holding table d
\* (for "join": games table d and sales table d2), when it does not raise.
LoadDataVG(src, d, d2, sortKeys) ==
    CASE src = "none" -> StripColumns(EmptyFrame)
      [] src = "join" ->
            StripColumns(Merge(WithKey(d, "Title", "title_lc"),
                               WithKey(d2, "Name", "name_lc"), sortKeys))
      [] OTHER -> StripColumns(d)

\* ------------------------------------------- Video Game data sources
\* The content of a data source is an input. A row is built from a profile:
\* one cell per kind of column.
T_CarRacer == <<"C", "a", "r", " ", "R", "a", "c", "e", "r">>
T_Sedan == <<"S", "e", "d", "a", "n">>
T_carracer_ == <<"c", "a", "r", " ", "r", "a", "c", "e", "r", " ">>
T_Nano == <<"N", "a", "n", "o">>
V_PC == <<"P", "C">>
V_PS4 == <<"P", "S", "4">>
V_RPG == <<"R", "P", "G">>
V_Action == <<"A", "c", "t", "i", "o", "n">>
V_tbd == <<"t", "b", "d">>
V_two == <<"2">>
V_Dev == <<"D", "e", "v">>

Profile(platform, genre, title, rating, sales, year, wishlist) ==
    [Platform |-> platform, Genre |-> genre, Title |-> title, Rating |-> rating,
     Global_Sales |-> sales, Year |-> year, Wishlist |-> wishlist,
     Plays |-> IF genre = Str(V_RPG) THEN Num(5) ELSE Num(4),
     Backlogs |-> Num(1), Developer |-> Str(V_Dev)]

P1 == Profile(Str(V_PC), Str(V_RPG), Str(T_CarRacer), Num(1), Num(2), Num(2000), Num(3))
P2 == Profile(Str(V_PS4), Str(V_Action), Str(T_Sedan), Str(V_two), Num(1), Num(2001), Str(V_tbd))
P3 == Profile(Str(V_PC), Str(V_Action), Null, Null, Num(2), Num(2001), Num(3))
P4 == Profile(Str(V_PS4), Str(V_RPG), Str(T_CarRacer), Str(V_tbd), Null, Num(2000), Null)
P5 == Profile(Null, Null, Str(T_Sedan), Num(0 - 1), Num(1), Null, Num(4))
S1 == Profile(Str(V_PC), Null, Str(T_carracer_), Null, Num(2), Num(2000), Null)
S2 == Profile(Str(V_PS4), Null, Str(T_Nano), Null, Num(1), Num(2001), Null)

RowPool == {P1, P2, P3, P4, P5}

\* the profile field a column of a source holds
FieldOf(h) ==
    CASE h \in {"Title", "Name"} -> "Title"
      [] h \in {"Platform", "platform"} -> "Platform"
      [] h \in {"Genre", "genre_name"} -> "Genre"
      [] h \in {"Rating", " rating ", "rating"} -> "Rating"
      [] h \in {"Global_Sales", "global sales", "NA_Sales"} -> "Global_Sales"
      [] h \in {"Year", "Release_Year"} -> "Year"
      [] OTHER -> h

MkTable(schema, profiles) ==
    [columns |-> schema,
     rows |-> [i \in 1..Len(profiles) |->
        [id |-> i - 1, c |-> [h \in Range(schema) |-> profiles[i][FieldOf(h)]]]]]

SchemaFull == <<"Title", "Platform", "Genre", "Rating", "Global_Sales", "Year",
                "Wishlist", "Plays", "Backlogs", "Developer">>
SchemaNoTitle == <<"Platform", "Genre", "Rating", "Global_Sales", "Year",
                   "Wishlist", "Plays", "Backlogs", "Developer">>
SchemaRaw == <<"Name", "platform", "genre_name", " rating ", "global sales",
               "Release_Year", "Wishlist", "Plays">>
SchemaNoWishlist == <<"Title", "Platform", "Genre", "Rating", "Global_Sales", "Year">>
SchemaNoSales == <<"Title", "Genre", "Rating", "Wishlist", "Plays">>
SchemaBare == <<"Wishlist", "Plays", "Backlogs">>
SchemaGames == <<"Title", "Genre", "Rating", "Year", "Wishlist", "Plays">>
SchemaSales == <<"Name", "Platform", "Year", "NA_Sales", "Global_Sales">>

OtherSchemas == {SchemaNoTitle, SchemaRaw, SchemaNoWishlist, SchemaNoSales, SchemaBare}

\* the tables a single-table source may hold
Datasets ==
    {MkTable(SchemaFull, ps) : ps \in SeqsUpTo(RowPool, MaxRows)}
    \cup {MkTable(sc, <<P1, P2>>) : sc \in OtherSchemas}

SmallData == MkTable(SchemaFull, <<P1>>)
GamesData == MkTable(SchemaGames, <<P1, P2>>)
SalesData == MkTable(SchemaSales, <<S1, S2>>)

\* every table of Datasets is tried as the CSV file of a folder without
\* the SQLite store; the other folders hold one small table
DataFor(e) ==
    IF SourceVG(e) = "join" THEN {GamesData, MkTable(SchemaSales, <<S1>>)}
    ELSE IF e.db = "missing" /\ e.csv = "ok" THEN Datasets ELSE {SmallData}

\* ---------------------------------------------------------------- state
VARIABLES
    app,      \* "vg" or "ola": the dashboard that runs
    env,      \* the files beside the script
    pc,       \* the position of the script run
    cached,   \* load_data has returned (st.cache_data keeps its table)
    source,   \* the source load_data read
    heap,     \* the table objects: canonical (df) and derived
    ref,      \* the object the name `filtered` is bound to
    roles,    \* the column the script resolved for each role
    fspec,    \* the widget values the last filter pass read
    out       \* what the last step rendered

vars == <<app, env, pc, cached, source, heap, ref, roles, fspec, out>>

df == heap.canonical
filtered == heap[ref]

NoSpec == [stage |-> 0]
NoOut == [kind |-> "none"]

\* widget choices tried
MaxMinRating == 1
MinRatingChoices == 0..MaxMinRating
SearchChoices == {<<>>, <<"c", "a", "r">>, <<"n", "a", "n">>}

InitVG ==
    /\ app = "vg"
    /\ env \in Envs
    /\ pc = "load"
    /\ cached = FALSE
    /\ source = "unread"
    /\ heap = [canonical |-> EmptyFrame, derived |-> EmptyFrame]
    /\ ref = "derived"
    /\ roles = NoRoles
    /\ fspec = NoSpec
    /\ out = NoOut

\* df = load_data(); if df.empty: st.error(..); st.stop()   (lines 33-72)
LoadVG ==
    /\ app = "vg" /\ pc = "load"
    /\ source' = SourceVG(env)
    /\ \E d \in DataFor(env), sortKeys \in BOOLEAN :
         /\ sortKeys => SourceVG(env) = "join"
         /\ IF LoadRaisesVG(SourceVG(env), d, SalesData)
            THEN /\ pc' = "raised"
                 /\ UNCHANGED <<cached, heap>>
            ELSE LET t == LoadDataVG(SourceVG(env), d, SalesData, sortKeys)
                 IN /\ heap' = [heap EXCEPT !.canonical = t]
                    /\ cached' = TRUE
                    /\ pc' = IF IsEmpty(t) THEN "stopped" ELSE "resolve"
    /\ out' = NoOut
    /\ UNCHANGED <<app, env, ref, roles, fspec>>

\* the columns of the roles are looked up (lines 76-82, 129)
ResolveColumns ==
    /\ app = "vg" /\ pc = "resolve"
    /\ roles' = Resolve(df.columns)
    /\ pc' = "filters"
    /\ UNCHANGED <<app, env, cached, source, heap, ref, fspec, out>>

\* the sidebar widgets are read and the filters applied (lines 84-102)
ApplyFilters ==
    /\ app = "vg" /\ pc = "filters"
    /\ \E sp \in SUBSET Options(df, roles.platform),
          sg \in SUBSET Options(df, roles.genre),
          mr \in (IF roles.rating # None THEN MinRatingChoices ELSE {0}),
          st \in SearchChoices :
         LET spec == [stage |-> 1, platforms |-> sp, genres |-> sg,
                      min_rating |-> mr, search |-> st]
             fs == ApplyFiltersVG(heap, roles, spec)
         IN /\ fspec' = spec
            /\ heap' = fs.heap
            /\ ref' = fs.ref
    /\ pc' = "kpis"
    /\ UNCHANGED <<app, env, cached, source, roles, out>>

\* ---- Top row KPIs (lines 108-116)
\* a sum or mean over a column that holds text raises TypeError
KpisRaiseVG(t, r) ==
    \/ HasColumn(t, r.global_sales) /\ HasText(t, r.global_sales)
    \/ HasColumn(t, "Wishlist") /\ HasText(t, "Wishlist")

\* a KPI that is shown as "N/A" when its column is absent
Optional(t, h) ==
    IF HasColumn(t, h)
    THEN [present |-> TRUE, mean |-> MeanOf(Column(t, h))]
    ELSE [present |-> FALSE, mean |-> [sum |-> 0, n |-> 0]]

KpisVG(t, r) ==
    [kind |-> "kpis",
     total_sales |-> IF HasColumn(t, r.global_sales)
                     THEN SumOf(Column(t, r.global_sales)) ELSE 0,
     avg_rating |-> Optional(t, r.rating),
     unique_games |-> IF HasColumn(t, r.title)
                      THEN NUnique(Column(t, r.title)) ELSE Len(t.rows),
     avg_wishlist |-> Optional(t, "Wishlist")]

Kpis ==
    /\ app = "vg" /\ pc = "kpis"
    /\ IF KpisRaiseVG(filtered, roles)
       THEN pc' = "raised" /\ out' = [kind |-> "raised"]
       ELSE pc' = "tab1" /\ out' = KpisVG(filtered, roles)
    /\ UNCHANGED <<app, env, cached, source, heap, ref, roles, fspec>>

\* ---- tab1, Overview (lines 124-145)
Tab1 ==
    /\ app = "vg" /\ pc = "tab1"
    /\ LET rev == env.unstable_sort IN
         out' = [kind |-> "tab1",
                 yearly |-> IF roles.year # None /\ roles.global_sales # None
                               /\ HasColumn(filtered, roles.year)
                            THEN GroupBy(filtered, roles.year, roles.global_sales)
                            ELSE <<>>,
                 top10 |-> IF roles.global_sales # None
                           THEN Shown(TopBySort(filtered, roles.global_sales, TopN, rev),
                                      roles.global_sales)
                           ELSE <<>>]
    /\ pc' = "tab2"
    /\ UNCHANGED <<app, env, cached, source, heap, ref, roles, fspec>>

\* ---- tab2, Genre Insights (lines 147-160)
Tab2 ==
    /\ app = "vg" /\ pc = "tab2"
    /\ IF roles.genre # None /\ roles.global_sales = None
       THEN pc' = "raised" /\ out' = [kind |-> "raised"]
       ELSE /\ pc' = "tab3"
            /\ LET rev == env.unstable_sort IN
                 out' = [kind |-> "tab2",
                         genre_sales |-> IF roles.genre # None
                             THEN BySumDesc(GroupBy(filtered, roles.genre,
                                                    roles.global_sales), rev)
                             ELSE <<>>,
                         genre_rating |-> IF roles.genre # None /\ roles.rating # None
                             THEN ByMeanDesc(GroupBy(filtered, roles.genre,
                                                     roles.rating), rev)
                             ELSE <<>>]
    /\ UNCHANGED <<app, env, cached, source, heap, ref, roles, fspec>>

\* ---- tab3, Platform Insights (lines 162-192)
Tab3 ==
    /\ app = "vg" /\ pc = "tab3"
    /\ IF roles.platform # None /\ roles.global_sales = None
       THEN pc' = "raised" /\ out' = [kind |-> "raised"]
       ELSE /\ pc' = "tab4"
            /\ LET rev == env.unstable_sort IN
                 out' = [kind |-> "tab3",
                         platform_sales |-> IF roles.platform # None
                             THEN BySumDesc(GroupBy(filtered, roles.platform,
                                                    roles.global_sales), rev)
                             ELSE <<>>,
                         platform_rating |-> IF roles.platform # None /\ roles.rating # None
                             THEN GroupBy(filtered, roles.platform, roles.rating)
                             ELSE <<>>]
    /\ UNCHANGED <<app, env, cached, source, heap, ref, roles, fspec>>

\* ---- tab4, Consumer Behavior (lines 194-227)
\* filtered['Wishlist'] and filtered['Plays'] are read without a test, and
\* the Top Wishlist table selects the sales and rating columns by name
Tab4Raises(t, r) ==
    \/ ~HasColumn(t, "Wishlist")
    \/ ~HasColumn(t, "Plays")
    \/ r.title # None /\ (r.global_sales = None \/ r.rating = None)

\* filtered[h] = pd.to_numeric(filtered[h], errors='coerce').fillna(0)
CoerceFill(fs, h) ==
    Assign(fs, h, [i \in 1..Len(Frame(fs).rows) |->
                      FillNa0(ToNumeric(Frame(fs).rows[i].c[h]))])

Tab4 ==
    /\ app = "vg" /\ pc = "tab4"
    /\ IF Tab4Raises(filtered, roles)
       THEN /\ pc' = "raised" /\ out' = [kind |-> "raised"]
            /\ UNCHANGED <<heap, ref>>
       ELSE LET fs == CoerceFill(CoerceFill([heap |-> heap, ref |-> ref],
                                            "Wishlist"), "Plays")
            IN /\ heap' = fs.heap
               /\ ref' = fs.ref
               /\ pc' = "tab5"
               /\ LET rev == env.unstable_sort IN
                    out' = [kind |-> "tab4",
                            top_wishlist |-> IF roles.title # None
                                THEN Shown(TopBySort(Frame(fs), "Wishlist", TopN, rev),
                                           "Wishlist")
                                ELSE <<>>]
    /\ UNCHANGED <<app, env, cached, source, roles, fspec>>

\* ---- tab5, the second filter pass (lines 232-256)
\* int(df['Year'].min()) raises when no year is a number
Tab5FilterRaises(t) ==
    HasColumn(t, "Year") /\ (HasText(t, "Year") \/ CountOf(Column(t, "Year")) = 0)

Years(t) == {c.v : c \in {x \in Range(Column(t, "Year")) : x.k = "num"}}

\* the positions of the year slider: (lo, hi) within [min_year, max_year]
YearRanges(t) ==
    LET lo == CHOOSE y \in Years(t) : \A z \in Years(t) : y <= z
        hi == CHOOSE y \in Years(t) : \A z \in Years(t) : y >= z
    IN {<<a, b>> : a \in lo..hi, b \in lo..hi} \cap {r \in Int \X Int : r[1] <= r[2]}

FilterGenre2(fs, spec) ==
    IF spec.genres # {}
    THEN Index(fs, [i \in 1..Len(Frame(fs).rows) |->
                       Frame(fs).rows[i].c["Genre"] \in spec.genres])
    ELSE fs

FilterPlatform2(fs, spec) ==
    IF spec.platforms # {}
    THEN Index(fs, [i \in 1..Len(Frame(fs).rows) |->
                       Frame(fs).rows[i].c["Platform"] \in spec.platforms])
    ELSE fs

FilterYear2(fs, spec) ==
    IF spec.year_range # <<>> /\ HasColumn(Frame(fs), "Year")
    THEN Index(fs, [i \in 1..Len(Frame(fs).rows) |->
             LET y == Frame(fs).rows[i].c["Year"]
             IN y.k = "num" /\ y.v >= spec.year_range[1] /\ y.v <= spec.year_range[2]])
    ELSE fs

\* a second pass that narrows the table the first pass left
ApplyFilters2Composed(h, spec) ==
    FilterYear2(FilterPlatform2(FilterGenre2([heap |-> h, ref |-> "derived"],
                                             spec), spec), spec)

\* lines 250-256
ApplyFilters2(h, spec) ==
    FilterYear2(FilterPlatform2(FilterGenre2(DfCopy(h), spec), spec), spec)

Tab5Filter ==
    /\ app = "vg" /\ pc = "tab5"
    /\ IF Tab5FilterRaises(df)
       THEN /\ pc' = "raised" /\ out' = [kind |-> "raised"]
            /\ UNCHANGED <<heap, ref, fspec>>
       ELSE \E gf \in (IF HasColumn(df, "Genre")
                       THEN SUBSET Options(df, "Genre") ELSE {{}}),
               pf \in (IF HasColumn(df, "Platform")
                       THEN SUBSET Options(df, "Platform") ELSE {{}}),
               yr \in (IF HasColumn(df, "Year") THEN YearRanges(df) ELSE {<<>>}) :
              LET spec == [stage |-> 2, genres |-> gf, platforms |-> pf,
                           year_range |-> yr]
                  fs == ApplyFilters2(heap, spec)
              IN /\ fspec' = spec
                 /\ heap' = fs.heap
                 /\ ref' = fs.ref
                 /\ pc' = "question"
                 /\ out' = NoOut
    /\ UNCHANGED <<app, env, cached, source, roles>>

\* ---- tab5, the business questions (lines 258-389)
\* the labels that have a branch in the dispatch
Q_TopRated == "Top-rated games by user reviews"
Q_DevAvg == "Developers with highest average ratings"
Q_CommonGenres == "Most common genres"
Q_Backlog == "Games with highest backlog vs wishlist"
Q_ReleaseTrend == "Game release trend across years"
Q_RatingDist == "Distribution of user ratings"
Q_Wishlisted == "Top 10 most wishlisted games"
Q_AvgPlays == "Average number of plays per genre"
Q_Region == "Region with highest game sales"
Q_BestSelling == "Top 10 best-selling games globally"
Q_GenreSales == "Genres generating most global sales"
Q_RatingEffect == "Effect of user rating on global sales"
Q_Corr == "Correlation between wishlist/backlogs and rating"

Handled == {Q_TopRated, Q_DevAvg, Q_CommonGenres, Q_Backlog, Q_ReleaseTrend,
            Q_RatingDist, Q_Wishlisted, Q_AvgPlays, Q_Region, Q_BestSelling,
            Q_GenreSales, Q_RatingEffect, Q_Corr}

\* the labels of the selectbox (lines 262-298)
Questions ==
    Handled \cup
    {"Most productive & impactful developers", "Best-selling platforms",
     "Trend of game releases and sales over years", "Top publishers by sales",
     "Regional sales comparison per platform",
     "Market evolution by platform over time", "Regional genre preferences",
     "Yearly sales change per region", "Average sales per publisher",
     "Top 5 best-selling games per platform",
     "Platforms with most high-rated games",
     "Trend of releases and sales over time",
     "Do highly wishlisted games lead to more sales?",
     "Genres with highest engagement but lowest sales",
     "User engagement across genres",
     "Top-performing Genre + Platform combinations",
     "Regional sales heatmap by genre"}

\* the columns the branch of a label tests before it runs
Guard(q) ==
    CASE q = Q_TopRated -> {"Rating"}
      [] q = Q_DevAvg -> {"Developer"}
      [] q = Q_CommonGenres -> {"Genre"}
      [] q = Q_Backlog -> {"Backlogs", "Wishlist"}
      [] q = Q_ReleaseTrend -> {"Year"}
      [] q = Q_RatingDist -> {"Rating"}
      [] q = Q_Wishlisted -> {"Wishlist"}
      [] q = Q_AvgPlays -> {"Genre", "Plays"}
      [] q = Q_BestSelling -> {"Global_Sales"}
      [] q = Q_GenreSales -> {"Genre", "Global_Sales"}
      [] q = Q_RatingEffect -> {"Rating", "Global_Sales"}
      [] q = Q_Corr -> {"Wishlist", "Backlogs", "Rating"}
      [] OTHER -> {}

\* the columns the branch of a label reads by name
Reads(q) ==
    CASE q = Q_TopRated -> {"Rating", "Title"}
      [] q = Q_DevAvg -> {"Developer", "Rating"}
      [] q = Q_Backlog -> {"Backlogs", "Wishlist", "Title"}
      [] q = Q_Wishlisted -> {"Wishlist", "Title"}
      [] q = Q_BestSelling -> {"Global_Sales", "Title"}
      [] q = Q_RatingEffect -> {"Rating", "Global_Sales", "Genre"}
      [] OTHER -> Guard(q)

W__Sales == <<"_", "S", "a", "l", "e", "s">>

\* [c for c in filtered.columns if c.endswith('_Sales')]
RegionCols(t) == {c \in Range(t.columns) : EndsWith(Chars(c), W__Sales)}

\* the columns a branch takes nlargest, mean, sum or corr of
Numeric(q, t) ==
    CASE q = Q_TopRated -> {"Rating"}
      [] q = Q_DevAvg -> {"Rating"}
      [] q = Q_Backlog -> {"Backlogs"}
      [] q = Q_Wishlisted -> {"Wishlist"}
      [] q = Q_AvgPlays -> {"Plays"}
      [] q = Q_Region -> RegionCols(t)
      [] q = Q_BestSelling -> {"Global_Sales"}
      [] q = Q_GenreSales -> {"Global_Sales"}
      [] q = Q_Corr -> {"Wishlist", "Backlogs", "Rating"}
      [] OTHER -> {}

\* How the dispatch ends for label q on table t:
\*   "unavailable"  the final else: st.info("Visualization not available ..")
\*   "blank"        the branch ran and rendered nothing
\*   "raised"       the branch raised (KeyError, TypeError, ValueError)
\*   "shown"        a chart was rendered
Outcome(q, t) ==
    IF q \notin Handled \/ ~(Guard(q) \subseteq Range(t.columns)) THEN "unavailable"
    ELSE IF q = Q_Region /\ RegionCols(t) = {} THEN "blank"
    ELSE IF ~(Reads(q) \subseteq Range(t.columns)) THEN "raised"
    ELSE IF \E h \in Numeric(q, t) : HasText(t, h) THEN "raised"
    ELSE "shown"

\* the column a Top-10 question ranks by
Metric(q) ==
    CASE q = Q_TopRated -> "Rating"
      [] q = Q_Backlog -> "Backlogs"
      [] q = Q_Wishlisted -> "Wishlist"
      [] q = Q_BestSelling -> "Global_Sales"
      [] OTHER -> None

\* the table behind the chart of a question that is shown
Result(q, t, tiesReversed) ==
    CASE Metric(q) # None -> Shown(NLargest(t, Metric(q), TopN, tiesReversed), Metric(q))
      [] q = Q_DevAvg -> Take(ByMeanDesc(GroupBy(t, "Developer", "Rating"), tiesReversed), TopN)
      [] q = Q_ReleaseTrend -> GroupBy(t, "Year", "Year")
      [] q = Q_AvgPlays -> GroupBy(t, "Genre", "Plays")
      [] q = Q_GenreSales -> BySumDesc(GroupBy(t, "Genre", "Global_Sales"), tiesReversed)
      [] OTHER -> <<>>

Question ==
    /\ app = "vg" /\ pc = "question"
    /\ \E q \in Questions :
         /\ out' = [kind |-> Outcome(q, filtered), question |-> q,
                    table |-> IF Outcome(q, filtered) = "shown"
                              THEN Result(q, filtered, env.unstable_sort) ELSE <<>>]
         /\ pc' = IF Outcome(q, filtered) = "raised" THEN "raised" ELSE "done"
    /\ UNCHANGED <<app, env, cached, source, heap, ref, roles, fspec>>

\* ------------------------------------------------- OLA dashboard
V_Success == <<"S", "u", "c", "c", "e", "s", "s">>
V_Cancelled == <<"C", "a", "n", "c", "e", "l", "l", "e", "d">>
V_Sedan == <<"P", "r", "i", "m", "e", " ", "S", "e", "d", "a", "n">>
V_Mini == <<"M", "i", "n", "i">>
V_UPI == <<"U", "P", "I">>
V_Cash == <<"C", "a", "s", "h">>
V_LocA == <<"A", "r", "e", "a", " ", "A">>
V_LocB == <<"A", "r", "e", "a", " ", "B">>
V_h14 == <<"1", "4">>
V_h09 == <<"0", "9">>

Ride(date, status, vehicle, payment, pickup, value) ==
    [Date |-> date, Booking_ID |-> Str(<<"B">>), Booking_Status |-> status,
     Vehicle_Type |-> vehicle, Payment_Method |-> payment,
     Pickup_Location |-> pickup, Booking_Value |-> value,
     Ride_Distance |-> Num(5)]

O1 == Ride(Str(V_h14), Str(V_Success), Str(V_Sedan), Str(V_UPI), Str(V_LocA), Num(3))
O2 == Ride(Str(V_h09), Str(V_Cancelled), Str(V_Mini), Str(V_Cash), Str(V_LocB), Num(2))
O3 == Ride(Str(V_tbd), Str(V_Success), Str(V_Sedan), Null, Str(V_LocA), Null)
O4 == Ride(Str(V_h14), Null, Null, Str(V_UPI), Str(V_LocB), Num(1))
O5 == Ride(Null, Str(V_Success), Str(V_Mini), Str(V_Cash), Str(V_LocA), Num(3))

RidePool == {O1, O2, O3, O4, O5}

OlaSchema == <<"Date", "Booking_ID", "Booking_Status", "Vehicle_Type",
               "Payment_Method", "Pickup_Location", "Booking_Value",
               "Ride_Distance">>
OlaSchemaNoDistance == <<"Date", "Booking_ID", "Booking_Status", "Vehicle_Type",
                         "Payment_Method", "Pickup_Location", "Booking_Value">>
OlaSchemaRaw == <<"Date", "Booking_ID", "Booking_Status", " Vehicle_Type",
                  "Payment_Method", "Pickup_Location", "Booking_Value",
                  "Ride_Distance">>
OlaSchemaNoDate == <<"Booking_ID", "Booking_Status", "Vehicle_Type",
                     "Payment_Method", "Pickup_Location", "Booking_Value">>
OlaSchemaNoPayment == <<"Date", "Booking_ID", "Booking_Status", "Vehicle_Type",
                        "Pickup_Location", "Booking_Value">>
OlaSchemaNoValue == <<"Date", "Booking_ID", "Booking_Status", "Vehicle_Type",
                      "Payment_Method", "Pickup_Location", "Ride_Distance">>

OlaField(h) == IF h = " Vehicle_Type" THEN "Vehicle_Type" ELSE h

MkRides(schema, rides) ==
    [columns |-> schema,
     rows |-> [i \in 1..Len(rides) |->
        [id |-> i - 1, c |-> [h \in Range(schema) |-> rides[i][OlaField(h)]]]]]

\* the tables OLA_DataSet.csv may hold
OlaDatasets ==
    {MkRides(OlaSchema, rs) : rs \in SeqsUpTo(RidePool, MaxRows)}
    \cup {MkRides(sc, <<O1, O2>>) :
            sc \in {OlaSchemaRaw, OlaSchemaNoDate, OlaSchemaNoPayment,
                    OlaSchemaNoDistance, OlaSchemaNoValue}}

OlaEnvs == [csv : {"missing", "ok", "corrupt"}, unstable_sort : BOOLEAN]

\* pd.to_datetime(x, errors="coerce") on one cell. A date is written in the
\* model as the two digits of its hour; any other text is not a date.
ToDatetime(c) ==
    IF c.k = "str" /\ Len(c.s) = 2 /\ IsDigits(c.s) THEN Num(ParseDigits(c.s))
    ELSE Null

\* load_data of the OLA dashboard raises (lines 13-14): the file is missing
\* or unreadable, or it has no column named exactly "Date"
LoadRaisesOLA(e, d) == e.csv # "ok" \/ ~HasColumn(d, "Date")

\* load_data of the OLA dashboard (lines 12-16)
LoadDataOLA(d) ==
    StripColumns(SetColumn(d, "Date",
        [i \in 1..Len(d.rows) |-> ToDatetime(d.rows[i].c["Date"])]))

InitOLA ==
    /\ app = "ola"
    /\ env \in OlaEnvs
    /\ pc = "load"
    /\ cached = FALSE
    /\ source = "unread"
    /\ heap = [canonical |-> EmptyFrame, derived |-> EmptyFrame]
    /\ ref = "derived"
    /\ roles = NoRoles
    /\ fspec = NoSpec
    /\ out = NoOut

\* df = load_data()   (lines 11-18)
LoadOLA ==
    /\ app = "ola" /\ pc = "load"
    /\ \E d \in (IF env.csv = "ok" THEN OlaDatasets ELSE {EmptyFrame}) :
         IF LoadRaisesOLA(env, d)
         THEN /\ pc' = "raised"
              /\ source' = "raise"
              /\ UNCHANGED <<cached, heap>>
         ELSE /\ heap' = [heap EXCEPT !.canonical = LoadDataOLA(d)]
              /\ cached' = TRUE
              /\ source' = "csv"
              /\ pc' = "resolve"
    /\ out' = NoOut
    /\ UNCHANGED <<app, env, ref, roles, fspec>>

\* df[col].unique(): the choices of a multiselect, the missing value included
Unique(t, col) == Range(Column(t, col))

\* a membership filter that looks at the first allowed value only
FilterIsinFirst(fs, col, values) ==
    IF values # {}
    THEN Index(fs, [i \in 1..Len(Frame(fs).rows) |->
                       Frame(fs).rows[i].c[col] = CHOOSE v \in values : TRUE])
    ELSE fs

\* if values: filtered_df = filtered_df[filtered_df[col].isin(values)]
FilterIsin(fs, col, values) ==
    IF values # {}
    THEN Index(fs, [i \in 1..Len(Frame(fs).rows) |->
                       Frame(fs).rows[i].c[col] \in values])
    ELSE fs

\* lines 37-43
ApplyFiltersOLA(h, spec) ==
    FilterIsin(FilterIsin(FilterIsin(DfCopy(h), "Vehicle_Type", spec.vehicle),
                          "Payment_Method", spec.payment),
               "Booking_Status", spec.status)

OlaFilterColumns == {"Vehicle_Type", "Payment_Method", "Booking_Status"}

\* the Dashboard page: the sidebar filters (lines 30-43)
OlaFilters ==
    /\ app = "ola" /\ pc = "resolve"
    /\ IF ~(OlaFilterColumns \subseteq Range(df.columns))
       THEN /\ pc' = "raised" /\ out' = [kind |-> "raised"]
            /\ UNCHANGED <<heap, ref, fspec>>
       ELSE \E v \in SUBSET Unique(df, "Vehicle_Type"),
               p \in SUBSET Unique(df, "Payment_Method"),
               st \in SUBSET Unique(df, "Booking_Status") :
              LET spec == [stage |-> 1, vehicle |-> v, payment |-> p, status |-> st]
                  fs == ApplyFiltersOLA(heap, spec)
              IN /\ fspec' = spec
                 /\ heap' = fs.heap
                 /\ ref' = fs.ref
                 /\ pc' = "kpis"
                 /\ out' = NoOut
    /\ UNCHANGED <<app, env, cached, source, roles>>

\* round(x, 2) of x = num / den, in hundredths: the nearest hundredth, the
\* even one when num / den lies exactly between two
Round2(num, den) ==
    LET q == (100 * num) \div den
        r == (100 * num) % den
    IN IF 2 * r > den \/ (2 * r = den /\ q % 2 = 1) THEN q + 1 ELSE q

\* a success rate cut off after two decimals instead of rounded
SuccessRateFloor(success_rides, total_rides) ==
    IF total_rides > 0 THEN (10000 * success_rides) \div total_rides ELSE 0

\* success_rate in hundredths of a percent (line 48)
SuccessRate(success_rides, total_rides) ==
    IF total_rides > 0 THEN Round2(success_rides * 100, total_rides) ELSE 0

\* the KPI row (lines 46-50)
KpisOLA(t) ==
    LET total_rides == Len(t.rows)
        success_rides == Cardinality({i \in 1..Len(t.rows) :
                            t.rows[i].c["Booking_Status"] = Str(V_Success)})
    IN [kind |-> "kpis",
        total_rides |-> total_rides,
        success_rides |-> success_rides,
        success_rate |-> SuccessRate(success_rides, total_rides),
        total_revenue |-> SumOf(Column(t, "Booking_Value")),
        avg_fare |-> MeanOf(Column(t, "Booking_Value"))]

KpisRaiseOLA(t) == ~HasColumn(t, "Booking_Value") \/ HasText(t, "Booking_Value")

OlaKpis ==
    /\ app = "ola" /\ pc = "kpis"
    /\ IF KpisRaiseOLA(filtered)
       THEN pc' = "raised" /\ out' = [kind |-> "raised"]
       ELSE pc' = "charts" /\ out' = KpisOLA(filtered)
    /\ UNCHANGED <<app, env, cached, source, heap, ref, roles, fspec>>

\* value_counts(): one entry per value that is not missing, most frequent
\* first
ValueCounts(t, h, tiesReversed) ==
    LET g == GroupBy(t, h, h)
        o == OrderDesc([i \in 1..Len(g) |-> Num(g[i].size)], tiesReversed)
    IN [i \in 1..Len(o) |-> [key |-> g[o[i]].key, count |-> g[o[i]].size]]

\* Series.nlargest(n) of the sums of groups
NLargestGroups(groups, n, tiesReversed) ==
    IF n >= Len(groups) THEN Take(BySumDesc(groups, tiesReversed), n)
    ELSE Take(BySumDesc(groups, FALSE), n)

\* the charts (lines 60-109). filtered_df["Hour"] (line 98) is added to the
\* derived table; the last chart (line 106) reads Ride_Distance
OlaCharts ==
    /\ app = "ola" /\ pc = "charts"
    /\ IF ~({"Pickup_Location", "Date"} \subseteq Range(filtered.columns))
       THEN /\ pc' = "raised" /\ out' = [kind |-> "raised"]
            /\ UNCHANGED <<heap, ref>>
       ELSE LET fs == Assign([heap |-> heap, ref |-> ref], "Hour",
                             Column(filtered, "Date"))
            IN /\ heap' = fs.heap
               /\ ref' = fs.ref
               /\ IF ~({"Booking_ID", "Ride_Distance"} \subseteq Range(filtered.columns))
                  THEN pc' = "raised" /\ out' = [kind |-> "raised"]
                  ELSE /\ pc' = "done"
                       /\ out' = [kind |-> "charts",
                             revenue_by_pickup |->
                                 NLargestGroups(GroupBy(filtered, "Pickup_Location",
                                     "Booking_Value"), TopN, env.unstable_sort),
                             top_pickups |->
                                 Take(ValueCounts(filtered, "Pickup_Location",
                                     env.unstable_sort), TopN),
                             rides_by_hour |->
                                 GroupBy(Frame(fs), "Hour", "Booking_ID")]
    /\ UNCHANGED <<app, env, cached, source, roles, fspec>>

\* ---- a widget changes: Streamlit runs the script again from the top, with
\* fresh variables; load_data is answered from its cache once it returned
Rerun ==
    /\ pc \in {"done", "raised", "stopped"}
    /\ pc' = IF ~cached THEN "load"
             ELSE IF app = "vg" /\ IsEmpty(df) THEN "stopped"
             ELSE "resolve"
    /\ heap' = [heap EXCEPT !.derived = EmptyFrame]
    /\ ref' = "derived"
    /\ roles' = NoRoles
    /\ fspec' = NoSpec
    /\ out' = NoOut
    /\ UNCHANGED <<app, env, cached, source>>

Init == InitVG \/ InitOLA

Next ==
    \/ LoadVG
    \/ ResolveColumns
    \/ ApplyFilters
    \/ Kpis
    \/ Tab1
    \/ Tab2
    \/ Tab3
    \/ Tab4
    \/ Tab5Filter
    \/ Question
    \/ LoadOLA
    \/ OlaFilters
    \/ OlaKpis
    \/ OlaCharts
    \/ Rerun

Spec == Init /\ [][Next]_vars

\* ------------------------------------------------- the KPI row on its own
\* The largest number of rides of a table of the KPI specification
MaxKpiRows == 10

\* tables of rides that differ in their booking status only
K1 == Ride(Num(14), Str(V_Success), Str(V_Sedan), Str(V_UPI), Str(V_LocA), Num(3))
K2 == Ride(Num(9), Str(V_Cancelled), Str(V_Mini), Str(V_Cash), Str(V_LocB), Num(2))

KpiTables == {MkRides(OlaSchema, rs) : rs \in SeqsUpTo({K1, K2}, MaxKpiRows)}

\* the dashboard after its filters have kept every ride of a table
InitKpi ==
    /\ app = "ola"
    /\ env = [csv |-> "ok", unstable_sort |-> FALSE]
    /\ pc = "kpis"
    /\ cached = TRUE
    /\ source = "csv"
    /\ \E t \in KpiTables : heap = [canonical |-> t, derived |-> t]
    /\ ref = "derived"
    /\ roles = NoRoles
    /\ fspec = [stage |-> 1, vehicle |-> {}, payment |-> {}, status |-> {}]
    /\ out = NoOut

NextKpi == OlaKpis

SpecKpi == InitKpi /\ [][NextKpi]_vars

\* ------------------------------------------------- the Top-N tables on their own
\* The largest number of games of a table of the Top-N specification
MaxTopRows == 11
\* The largest number of games of a table with missing sales
MaxNullRows == 3

G1 == Profile(Str(V_PC), Str(V_RPG), Str(T_CarRacer), Num(1), Num(2), Num(2000), Num(3))
G2 == Profile(Str(V_PS4), Str(V_Action), Str(T_Sedan), Num(2), Num(1), Num(2001), Num(4))
G3 == Profile(Str(V_PC), Str(V_Action), Str(T_Nano), Null, Null, Num(2001), Null)

\* tables with as many rows as the Top-N limit and with more, and short ones
\* with missing values in the ranked columns
TopTables ==
    {MkTable(SchemaFull, ps) : ps \in [1..TopN -> {G1, G2}]}
    \cup {MkTable(SchemaFull, ps) : ps \in [1..MaxTopRows -> {G1, G2}]}
    \cup {MkTable(SchemaFull, ps) : ps \in SeqsUpTo({G1, G2, G3}, MaxNullRows)}

\* the dashboard about to render the Overview tab, or about to answer a
\* question, with filters that have kept every game of a table
InitTopN ==
    /\ app = "vg"
    /\ env \in {e \in Envs : e.db = "missing" /\ e.csv = "ok"}
    /\ pc \in {"tab1", "question"}
    /\ cached = TRUE
    /\ source = "csv"
    /\ \E t \in TopTables : heap = [canonical |-> t, derived |-> t]
    /\ ref = "derived"
    /\ roles = Resolve(SchemaFull)
    /\ fspec = NoSpec
    /\ out = NoOut

NextTopN == Tab1 \/ Question

SpecTopN == InitTopN /\ [][NextTopN]_vars

\* ------------------------------------------------------------ properties
\* the first-stage filters have just been applied
FilteredVG == app = "vg" /\ pc = "kpis" /\ fspec.stage = 1
FilteredOLA == app = "ola" /\ pc = "kpis" /\ fspec.stage = 1

\* every predicate of the first-stage filter is empty
AllEmptyVG ==
    /\ FilteredVG
    /\ fspec.platforms = {} /\ fspec.genres = {}
    /\ fspec.min_rating = 0 /\ fspec.search = <<>>
AllEmptyOLA ==
    /\ FilteredOLA
    /\ fspec.vehicle = {} /\ fspec.payment = {} /\ fspec.status = {}

\* the number a rating cell stands for in the comparison with the bound
RatingValue(c) == IF IsNull(ToNumeric(c)) THEN 0 ELSE ToNumeric(c).v

\* row i of the canonical table with its rating cell coerced to a number
Coerced(i) ==
    IF roles.rating = None THEN df.rows[i]
    ELSE [df.rows[i] EXCEPT !.c[roles.rating] = ToNumeric(@)]

\* C1 (as stated): with every predicate empty, the filtered table equals the
\* input: the same rows, in the same order, with the same cell values.
C1_Identity == (AllEmptyVG \/ AllEmptyOLA) => filtered = df

\* C1 (amended): with every predicate empty, the OLA filter and the Video
\* Game filter without a rating column return the input; with a rating
\* column the Video Game filter returns, in the input's order, the rows
\* whose rating (missing or unparseable taken as 0) is at least 0, their
\* rating cells coerced to numbers and every other cell unchanged.
C1_IdentityUpToRating ==
    /\ AllEmptyOLA => filtered = df
    /\ AllEmptyVG =>
         /\ filtered.columns = df.columns
         /\ filtered.rows =
              SelectRows([i \in 1..Len(df.rows) |-> Coerced(i)],
                  {i \in 1..Len(df.rows) :
                      roles.rating # None => RatingValue(df.rows[i].c[roles.rating]) >= 0})

\* C1 witness: every predicate is empty and a row of the input is gone
C1_RowDropped ==
    AllEmptyVG /\ roles.rating # None /\ Len(filtered.rows) < Len(df.rows)

\* the predicates of the Video Game filter on row i of the canonical table,
\* each as the code computes it
PassPlatform(i) ==
    (roles.platform # None /\ fspec.platforms # {})
        => df.rows[i].c[roles.platform] \in fspec.platforms
PassGenre(i) ==
    (roles.genre # None /\ fspec.genres # {})
        => df.rows[i].c[roles.genre] \in fspec.genres
PassRating(i) ==
    roles.rating # None => RatingValue(df.rows[i].c[roles.rating]) >= fspec.min_rating
PassTitle(i) ==
    (fspec.search # <<>> /\ roles.title # None)
        => Contains(Lower(AsTypeStr(df.rows[i].c[roles.title])), Lower(fspec.search))

\* the predicates of the OLA filter on row i of the canonical table
PassOLA(i, col, values) == values # {} => df.rows[i].c[col] \in values
PassAllOLA(i) ==
    /\ PassOLA(i, "Vehicle_Type", fspec.vehicle)
    /\ PassOLA(i, "Payment_Method", fspec.payment)
    /\ PassOLA(i, "Booking_Status", fspec.status)

\* C2: for a non-empty set of allowed values of a dimension whose column
\* exists, every row of the result has its value in the set, and every input
\* row with its value in the set that passes the other predicates is in the
\* result.
C2_Membership ==
    /\ FilteredVG =>
         /\ \A i \in 1..Len(filtered.rows) :
              /\ (roles.platform # None /\ fspec.platforms # {})
                    => filtered.rows[i].c[roles.platform] \in fspec.platforms
              /\ (roles.genre # None /\ fspec.genres # {})
                    => filtered.rows[i].c[roles.genre] \in fspec.genres
         /\ \A i \in 1..Len(df.rows) :
              (PassPlatform(i) /\ PassGenre(i) /\ PassRating(i) /\ PassTitle(i))
                  => df.rows[i].id \in Range(Ids(filtered))
    /\ FilteredOLA =>
         /\ \A i \in 1..Len(filtered.rows) :
              /\ fspec.vehicle # {} => filtered.rows[i].c["Vehicle_Type"] \in fspec.vehicle
              /\ fspec.payment # {} => filtered.rows[i].c["Payment_Method"] \in fspec.payment
              /\ fspec.status # {} => filtered.rows[i].c["Booking_Status"] \in fspec.status
         /\ \A i \in 1..Len(df.rows) :
              PassAllOLA(i) => df.rows[i].id \in Range(Ids(filtered))

\* C2 witness: two values are allowed for a dimension; a row is kept and
\* another one is dropped
C2_KeptAndDropped ==
    /\ FilteredOLA
    /\ Cardinality(fspec.vehicle) = 2
    /\ Len(filtered.rows) = 1
    /\ Len(df.rows) = 2

\* a question has been answered: out holds its label and its outcome
Answered == app = "vg" /\ pc \in {"done", "raised"} /\ "question" \in DOMAIN out

\* C3: when a column the transform of a question reads is absent from the
\* filtered table, the question ends in the Unavailable notice and does not
\* raise.
C3_MissingColumnUnavailable ==
    (Answered /\ ~(Reads(out.question) \subseteq Range(filtered.columns)))
        => out.kind = "unavailable"

\* a Top-N table has been rendered: the rows it shows and the column it ranks by
IsTopN ==
    \/ out.kind = "tab1" /\ roles.global_sales # None
    \/ out.kind = "shown" /\ Metric(out.question) # None
TopShown == IF out.kind = "tab1" THEN out.top10 ELSE out.table
TopCol == IF out.kind = "tab1" THEN roles.global_sales ELSE Metric(out.question)

\* the rows shown are rows of the input, none twice; there are min(N, rows)
\* of them, in descending order of the metric, missing values last; and no
\* row left out has a larger metric than a row shown
TopNLargestDescending ==
    LET sh == TopShown
        rs == filtered.rows
        shownIds == {sh[i].id : i \in 1..Len(sh)}
    IN /\ Len(sh) = Min2(TopN, Len(rs))
       /\ Cardinality(shownIds) = Len(sh)
       /\ \A i \in 1..Len(sh) : \E j \in 1..Len(rs) :
             rs[j].id = sh[i].id /\ rs[j].c[TopCol] = sh[i].metric
       /\ \A i, j \in 1..Len(sh) :
             i < j => \/ IsNull(sh[j].metric)
                      \/ ~IsNull(sh[i].metric) /\ sh[i].metric.v >= sh[j].metric.v
       /\ \A j \in 1..Len(rs) : rs[j].id \notin shownIds =>
             \A i \in 1..Len(sh) :
                \/ IsNull(rs[j].c[TopCol])
                \/ ~IsNull(sh[i].metric) /\ sh[i].metric.v >= rs[j].c[TopCol].v

\* rows with equal metric values appear in their original row order
TiesInOriginalOrder ==
    \A i, j \in 1..Len(TopShown) :
        (i < j /\ TopShown[i].metric = TopShown[j].metric)
            => TopShown[i].id < TopShown[j].id

TitleContains(c, search) == c.k = "str" /\ Contains(Lower(c.s), Lower(search))

\* C5: for a non-empty search string, the rows retained are exactly those
\* whose title is not null and contains the string ignoring case; a row with a
\* null title is never retained.
C5_SubstringFilter ==
    (FilteredVG /\ fspec.search # <<>> /\ roles.title # None) =>
        \A i \in 1..Len(df.rows) :
            (PassPlatform(i) /\ PassGenre(i) /\ PassRating(i)) =>
                (df.rows[i].id \in Range(Ids(filtered))
                    <=> TitleContains(df.rows[i].c[roles.title], fspec.search))

\* C6: with a rating column resolved, the column is coerced to numbers and a
\* row is retained if and only if its rating, a missing or unparseable one
\* taken as 0, is at least the lower bound.
C6_MinRating ==
    (FilteredVG /\ roles.rating # None) =>
        /\ \A i \in 1..Len(filtered.rows) :
              /\ filtered.rows[i].c[roles.rating].k \in {"num", "null"}
              /\ RatingValue(filtered.rows[i].c[roles.rating]) >= fspec.min_rating
        /\ \A i \in 1..Len(df.rows) :
              (PassPlatform(i) /\ PassGenre(i) /\ PassTitle(i)) =>
                  (df.rows[i].id \in Range(Ids(filtered))
                      <=> RatingValue(df.rows[i].c[roles.rating]) >= fspec.min_rating)

\* C6 witness: the bound is above 0 and a row without a usable rating, which
\* passes every other predicate, is dropped; a row with a rating is kept
C6_MissingDropped ==
    /\ FilteredVG /\ roles.rating # None
    /\ fspec.min_rating > 0
    /\ Len(filtered.rows) > 0
    /\ \E i \in 1..Len(df.rows) :
          /\ IsNull(ToNumeric(df.rows[i].c[roles.rating]))
          /\ PassPlatform(i) /\ PassGenre(i) /\ PassTitle(i)
          /\ df.rows[i].id \notin Range(Ids(filtered))

\* the KPI row of the OLA dashboard has been computed: the rows counted
KpiShown == app = "ola" /\ pc = "charts" /\ out.kind = "kpis"
KpiRows == Len(filtered.rows)
KpiSuccess ==
    Cardinality({i \in 1..Len(filtered.rows) :
        filtered.rows[i].c["Booking_Status"] = Str(V_Success)})

\* C7 (as stated): the success rate is 0 on zero rows and otherwise equals
\* 100 * (rows whose status is Success) / (rows). The rate is held in
\* hundredths of a percent.
C7_ExactRate ==
    KpiShown =>
        /\ KpiRows = 0 => out.success_rate = 0
        /\ KpiRows > 0 => out.success_rate * KpiRows = 10000 * KpiSuccess

\* C7 (amended): the success rate is 0 on zero rows and otherwise is
\* 100 * (rows whose status is Success) / (rows) rounded to two decimals:
\* it lies within half a hundredth of the quotient.
C7_RoundedRate ==
    KpiShown =>
        /\ KpiRows = 0 => out.success_rate = 0
        /\ KpiRows > 0 =>
             /\ 2 * (out.success_rate * KpiRows - 10000 * KpiSuccess) <= KpiRows
             /\ 2 * (10000 * KpiSuccess - out.success_rate * KpiRows) <= KpiRows

\* C7 witness: 7 Success rows out of 10 give 70.0
C7_SevenOfTen ==
    KpiShown /\ KpiRows = 10 /\ KpiSuccess = 7 /\ out.success_rate = 7000

\* C8: the filtered result is exactly the set of rows that satisfy the
\* predicate of every active dimension, in the order of the input; the title
\* predicate is the one specified (not null, contains the search string).
C8_Conjunction ==
    /\ FilteredVG =>
         \A i \in 1..Len(df.rows) :
             df.rows[i].id \in Range(Ids(filtered))
                 <=> /\ PassPlatform(i) /\ PassGenre(i) /\ PassRating(i)
                     /\ (fspec.search # <<>> /\ roles.title # None)
                            => TitleContains(df.rows[i].c[roles.title], fspec.search)
    /\ FilteredOLA =>
         \A i \in 1..Len(df.rows) :
             df.rows[i].id \in Range(Ids(filtered)) <=> PassAllOLA(i)

\* no source of the dashboard can be read
NoUsableSource ==
    \/ app = "ola" /\ env.csv # "ok"
    \/ app = "vg" /\ env.csv # "ok"
       /\ (env.db # "ok" \/ ("merged" \notin env.tables
                             /\ "video_game_data" \notin env.tables
                             /\ ~({"games", "sales"} \subseteq env.tables)))

\* C9: when no source can be read the load ends in the DataUnavailable
\* outcome with an empty table: no exception escapes and no later step runs.
C9_LoaderUnavailable ==
    (NoUsableSource /\ pc # "load") => (pc = "stopped" /\ IsEmpty(df))

\* C10: the canonical table is never changed once the loader has produced it.
C10_CanonicalKept == [][cached => heap'.canonical = heap.canonical]_vars

\* C10 witness: the rating column of the derived table has been coerced in
\* place and the canonical table still holds the text
C10_DerivedCoerced ==
    /\ FilteredVG /\ roles.rating # None
    /\ \E i \in 1..Len(df.rows), j \in 1..Len(filtered.rows) :
          /\ df.rows[i].id = filtered.rows[j].id
          /\ df.rows[i].c[roles.rating].k = "str"
          /\ filtered.rows[j].c[roles.rating].k = "num"

\* the KPI row of the Video Game dashboard has been computed
KpisDoneVG == app = "vg" /\ pc = "tab1" /\ out.kind = "kpis"

\* the script has ended in an exception while it computed the KPI row
KpiRaised ==
    /\ pc = "raised" /\ fspec.stage = 1 /\ out.kind = "raised"
    /\ \/ app = "vg" /\ KpisRaiseVG(filtered, roles)
       \/ app = "ola" /\ KpisRaiseOLA(filtered)

\* C11: computing the KPI set never raises, and each optional KPI field has a
\* value if and only if its prerequisite column is resolved and present in the
\* filtered table; otherwise the field is absent, not a substitute number.
C11_KpiPresence ==
    /\ ~KpiRaised
    /\ KpisDoneVG =>
         /\ out.total_sales \in Int <=> HasColumn(filtered, roles.global_sales)
         /\ out.avg_rating.present <=> HasColumn(filtered, roles.rating)
         /\ out.unique_games \in Int <=> HasColumn(filtered, roles.title)
         /\ out.avg_wishlist.present <=> HasColumn(filtered, "Wishlist")

\* the part of C11 the Video Game dashboard keeps: the two averages are
\* absent exactly when their column is
C11_AveragesOptional ==
    KpisDoneVG =>
        /\ out.avg_rating.present <=> HasColumn(filtered, roles.rating)
        /\ out.avg_wishlist.present <=> HasColumn(filtered, "Wishlist")

\* the substitute numbers: total sales 0 and the row count as unique games
C11_Substitutes ==
    KpisDoneVG =>
        /\ ~HasColumn(filtered, roles.global_sales) => out.total_sales = 0
        /\ ~HasColumn(filtered, roles.title) => out.unique_games = Len(filtered.rows)

\* the keys of the rows of a group-by result
GroupKeys(gs) == {gs[i].key : i \in 1..Len(gs)}

\* the values of the grouping column: all of them, or those that are not null
KeysOf(t, key, nullGroup) ==
    IF nullGroup THEN Range(Column(t, key))
    ELSE {c \in Range(Column(t, key)) : ~IsNull(c)}

\* the orders of a group-by result
DescBySum(gs) == \A i, j \in 1..Len(gs) : i < j => gs[i].sum >= gs[j].sum
DescByMean(gs) ==
    \A i, j \in 1..Len(gs) :
        i < j => \/ gs[j].n = 0
                 \/ gs[i].n > 0 /\ gs[i].sum * gs[j].n >= gs[j].sum * gs[i].n
AscByKey(gs) == \A i, j \in 1..Len(gs) : i < j => CellLess(gs[i].key, gs[j].key)

\* gs is the result of grouping table t by column key and aggregating column
\* val: one row per key, each with the sum, the count and the size of its
\* group, in the given order; a limited query shows TopN groups at most
GroupQuery(gs, t, key, val, nullGroup, order, limited) ==
    /\ GroupKeys(gs) \subseteq KeysOf(t, key, nullGroup)
    /\ Cardinality(GroupKeys(gs)) = Len(gs)
    /\ Len(gs) = IF limited THEN Min2(TopN, Cardinality(KeysOf(t, key, nullGroup)))
                 ELSE Cardinality(KeysOf(t, key, nullGroup))
    /\ \A i \in 1..Len(gs) :
          LET cells == SelectRows(Column(t, val),
                          {j \in 1..Len(t.rows) : t.rows[j].c[key] = gs[i].key})
          IN /\ gs[i].sum = SumOf(cells)
             /\ gs[i].n = CountOf(cells)
             /\ gs[i].size = Len(cells)
    /\ CASE order = "sum" -> DescBySum(gs)
         [] order = "mean" -> DescByMean(gs)
         [] order = "key" -> AscByKey(gs)
         [] OTHER -> TRUE

\* cs is the result of value_counts on column key of t, TopN values at most
CountQuery(cs, t, key, nullGroup) ==
    /\ {cs[i].key : i \in 1..Len(cs)} \subseteq KeysOf(t, key, nullGroup)
    /\ Len(cs) = Min2(TopN, Cardinality(KeysOf(t, key, nullGroup)))
    /\ \A i \in 1..Len(cs) :
          cs[i].count = Cardinality({j \in 1..Len(t.rows) : t.rows[j].c[key] = cs[i].key})
    /\ \A i, j \in 1..Len(cs) :
          i < j => cs[i].key # cs[j].key /\ cs[i].count >= cs[j].count

\* every group-by result the dashboards render satisfies GroupQuery;
\* nullGroup: null grouping values form a group; plain: the order of the
\* queries the code does not sort
GroupResults(nullGroup, plain) ==
    /\ (app = "vg" /\ out.kind = "tab1" /\ roles.year # None
            /\ roles.global_sales # None /\ HasColumn(filtered, roles.year))
         => GroupQuery(out.yearly, filtered, roles.year, roles.global_sales,
                       nullGroup, "key", FALSE)
    /\ (app = "vg" /\ out.kind = "tab2" /\ roles.genre # None)
         => /\ GroupQuery(out.genre_sales, filtered, roles.genre,
                          roles.global_sales, nullGroup, "sum", FALSE)
            /\ roles.rating # None =>
                  GroupQuery(out.genre_rating, filtered, roles.genre,
                             roles.rating, nullGroup, "mean", FALSE)
    /\ (app = "vg" /\ out.kind = "tab3" /\ roles.platform # None)
         => /\ GroupQuery(out.platform_sales, filtered, roles.platform,
                          roles.global_sales, nullGroup, "sum", FALSE)
            /\ roles.rating # None =>
                  GroupQuery(out.platform_rating, filtered, roles.platform,
                             roles.rating, nullGroup, "any", FALSE)
    /\ (app = "vg" /\ out.kind = "shown") =>
         CASE out.question = Q_DevAvg ->
                GroupQuery(out.table, filtered, "Developer", "Rating",
                           nullGroup, "mean", TRUE)
           [] out.question = Q_ReleaseTrend ->
                GroupQuery(out.table, filtered, "Year", "Year", nullGroup, "key", FALSE)
           [] out.question = Q_AvgPlays ->
                GroupQuery(out.table, filtered, "Genre", "Plays", nullGroup, plain, FALSE)
           [] out.question = Q_GenreSales ->
                GroupQuery(out.table, filtered, "Genre", "Global_Sales",
                           nullGroup, "sum", FALSE)
           [] OTHER -> TRUE
    /\ (app = "ola" /\ out.kind = "charts") =>
         /\ GroupQuery(out.revenue_by_pickup, filtered, "Pickup_Location",
                       "Booking_Value", nullGroup, "sum", TRUE)
         /\ GroupQuery(out.rides_by_hour, filtered, "Hour", "Booking_ID",
                       nullGroup, "key", FALSE)
         /\ CountQuery(out.top_pickups, filtered, "Pickup_Location", nullGroup)

RoleNames(r) ==
    CASE r = "platform" -> IsPlatformName
      [] r = "genre" -> IsGenreName
      [] r = "title" -> IsTitleName
      [] r = "rating" -> IsRatingName
      [] r = "global_sales" -> IsGlobalSalesName
      [] r = "year" -> IsYearName

\* the positions of the canonical table's columns that satisfy a role's test
Hits(r) == {i \in 1..Len(df.columns) : df.columns[i] \in RoleNames(r)}

\* the Video Game script has resolved its columns
Resolved == app = "vg" /\ (pc = "filters" \/ fspec.stage >= 1)

\* C13: each role maps to at most one column, the first column in original
\* order whose name satisfies the role's case-insensitive test, or to no column
\* when none satisfies it; the role map is a function of the headers alone.
C13_ColumnResolution ==
    Resolved =>
        \A r \in DOMAIN roles :
            IF Hits(r) = {} THEN roles[r] = None
            ELSE \E i \in Hits(r) :
                    /\ roles[r] = df.columns[i]
                    /\ \A j \in Hits(r) : i <= j

\* C13 witness: several columns satisfy the title test, one of them only
\* ignoring case, and the first of them is the title column
C13_FirstOfSeveral ==
    /\ Resolved
    /\ \E i, j \in Hits("title") :
          /\ i < j
          /\ roles.title = df.columns[i]
          /\ roles.title # df.columns[j]
    /\ roles.global_sales # None

\* row i of the canonical table passes the second-stage selections
PassSecond(i) ==
    LET r == df.rows[i].c
    IN /\ fspec.genres # {} => r["Genre"] \in fspec.genres
       /\ fspec.platforms # {} => r["Platform"] \in fspec.platforms
       /\ (fspec.year_range # <<>> /\ HasColumn(df, "Year")) =>
             /\ r["Year"].k = "num"
             /\ r["Year"].v >= fspec.year_range[1]
             /\ r["Year"].v <= fspec.year_range[2]

\* the canonical table narrowed by the second-stage selections alone
SecondStage ==
    [columns |-> df.columns,
     rows |-> SelectRows(df.rows, {i \in 1..Len(df.rows) : PassSecond(i)})]

\* the second filter pass has run
SecondDone == app = "vg" /\ fspec.stage = 2

\* C14: the second-stage filtered table and every business-question result
\* are determined by the unfiltered canonical table and the second-stage
\* selections alone, so they are the same for any two settings of the
\* first-stage filters.
C14_SecondPassIndependent ==
    SecondDone =>
        /\ filtered = SecondStage
        /\ Answered =>
              /\ out.kind = Outcome(out.question, SecondStage)
              /\ out.kind = "shown" =>
                    out.table = Result(out.question, SecondStage, env.unstable_sort)

\* C14 witness: a question is answered from a table that holds a game whose
\* wishlist is text; the first-stage filters of this run had left that game
\* out, since the KPI row raises on a table that holds it
C14_FirstStageForgotten ==
    /\ SecondDone /\ Answered /\ out.kind = "shown"
    /\ HasColumn(filtered, "Wishlist")
    /\ \E i \in 1..Len(filtered.rows) : filtered.rows[i].c["Wishlist"].k = "str"
    /\ Len(filtered.rows) < Len(df.rows)

====
